---- MODULE Spec2Model ----
(***************************************************************************)
(* State machine of the System Monitor application (src/src/main.rs):     *)
(* the iced Application `App`, its `update` handler per Message variant,  *)
(* the messages its `view` can emit, and the async tasks (settings load,  *)
(* settings save, 3-second sleeps) whose completions re-enter `update`.   *)
(*                                                                         *)
(* The OS (sysinfo) is an input: a refresh draws the process table it     *)
(* reports, and a kill draws whether the pid is still live and whether    *)
(* the signal is permitted.  ProcessData keeps pid and cpu_usage; name    *)
(* and memory are carried by the code unchanged and never compared.       *)
(* cpu_usage ranges over finite numbers (sysinfo reports no NaN), so      *)
(* partial_cmp is always Some.                                            *)
(*                                                                         *)
(* AppSettings::load and AppSettings::save are functions of the file      *)
(* system; StoreSpec calls them in any order on every file system of      *)
(* Disks.  Spec takes their results as inputs of SettingsLoaded and       *)
(* SettingsSaved and does not follow the disk.                            *)
(***************************************************************************)
EXTENDS Integers, Sequences, FiniteSets, TLC

\* ----------------------------------------------------------------- bounds
MaxPid == 2        \* process identifiers are 1..MaxPid
MaxCpu == 1        \* cpu_usage values are 0..MaxCpu
MaxSleeps == 2     \* sleep tasks in flight at once
MaxSaves == 2      \* settings-save tasks in flight at once
SortMaxPid == 3    \* process identifiers of the tables SortSpec refreshes from
SortMaxCpu == 1    \* cpu_usage values of the tables SortSpec refreshes from

\* ------------------------------------------------------------ data model
NoPid == 0         \* Option<Pid>::None
Pids == 1..MaxPid

ThemeChoice == {"Light", "Dark"}
Tab == {"Dashboard", "Processes", "Settings"}

\* sys.processes().values(): ProcessData records (pid, cpu_usage) in the
\* map's iteration order, one per pid; the running application itself is
\* always one of them.
TablesOver(n_pids, max_cpu) ==
  {t \in UNION {[1..n -> [pid : 1..n_pids, cpu_usage : 0..max_cpu]] :
                  n \in 1..n_pids} :
     \A i, j \in DOMAIN t : i # j => t[i].pid # t[j].pid}

Tables == TablesOver(MaxPid, MaxCpu)
SortTables == TablesOver(SortMaxPid, SortMaxCpu)

PidsOf(t) == {t[i].pid : i \in DOMAIN t}

AppSettings_default == [theme |-> "Dark"]
AppSettings == [theme : ThemeChoice]

\* ThemeChoice::to_theme
to_theme(choice) == IF choice = "Light" THEN "Theme::Light" ELSE "Theme::Dark"

\* ------------------------------------------- AppSettings::load and ::save
\* Result<AppSettings, String> and Result<(), String>
NoSettings == [theme |-> "None"]
Ok(value) == [ok |-> TRUE, value |-> value, error |-> ""]
Err(error) == [ok |-> FALSE, value |-> NoSettings, error |-> error]

to_string_debug(s) == "AppSettings { theme: " \o s.theme \o " }"
\* serde_json::to_string_pretty(&self): the derived Serialize writes the
\* struct as an object and the unit variant as its name
to_string_pretty(s) == "{\n  \"theme\": \"" \o s.theme \o "\"\n}"

\* What settings.json may hold: a document of to_string_pretty, the same
\* object written compactly, an object of an unknown variant, an object
\* without the field, text that is no JSON, and bytes that are no UTF-8.
Absent == "<no file>"
NotUtf8 == "<bytes that are not UTF-8>"
Contents ==
  {to_string_pretty(s) : s \in AppSettings}
    \cup {"{\"theme\":\"Light\"}", "{\"theme\": \"Blue\"}", "{}",
          "theme = Dark", NotUtf8}

\* The JSON texts of Contents that the derived Deserialize reads as
\* `theme`: white space between tokens is free, the variant name is exact.
Documents(theme) ==
  {"{\n  \"theme\": \"" \o theme \o "\"\n}",
   "{\"theme\":\"" \o theme \o "\"}"}

\* serde_json::from_str(&content).map_err(|e| e.to_string())
from_str(content) ==
  IF \E theme \in ThemeChoice : content \in Documents(theme)
  THEN Ok([theme |-> CHOOSE theme \in ThemeChoice : content \in Documents(theme)])
  ELSE Err("<serde_json error>")

\* tokio::fs::read_to_string(path): the file is readable by the user who
\* writes it, and the read fails on bytes that are not UTF-8.
read_to_string(content) ==
  IF content = NotUtf8 THEN Err("<io error>") ELSE Ok([theme |-> content])

\* The file system: config_dir says whether ProjectDirs::from finds a home
\* (config_path() is Some), dir_exists whether the parent directory of
\* settings.json exists, can_create_dir and can_write whether create_dir_all
\* and write succeed, file what settings.json holds.
Disks ==
  {d \in [config_dir : BOOLEAN, dir_exists : BOOLEAN,
          can_create_dir : BOOLEAN, can_write : BOOLEAN,
          file : {Absent} \cup Contents] :
     ~d.dir_exists => d.file = Absent}

load_missing_is_error(d) ==
  IF d.config_dir
  THEN IF d.file # Absent
       THEN IF read_to_string(d.file).ok
            THEN from_str(d.file)
            ELSE Err(read_to_string(d.file).error)
       ELSE Err("<io error>")
  ELSE Err("Could not find config directory")

\* AppSettings::load
load(d) ==
  IF d.config_dir
  THEN IF d.file # Absent
       THEN IF read_to_string(d.file).ok
            THEN from_str(d.file)
            ELSE Err(read_to_string(d.file).error)
       ELSE Ok(AppSettings_default)
  ELSE Err("Could not find config directory")

\* AppSettings::save: the result and the file system it leaves
save(s, d) ==
  IF d.config_dir
  THEN IF ~d.dir_exists /\ ~d.can_create_dir
       THEN [result |-> Err("<io error>"), disk |-> d]
       ELSE LET made == [d EXCEPT !.dir_exists = TRUE]
            IN IF made.can_write
               THEN [result |-> Ok(NoSettings),
                     disk |-> [made EXCEPT !.file = to_string_pretty(s)]]
               ELSE [result |-> Err("<io error>"), disk |-> made]
  ELSE [result |-> Err("Could not find config directory"), disk |-> d]

\* A rendered String: the format string and the pid substituted for {}.
\* The byte groups in <> are the bytes of the non-ASCII suffix the source
\* literal holds.
to_string(s) == [fmt |-> s, arg |-> NoPid]
format(fmt, pid) == [fmt |-> fmt, arg |-> pid]

NoStatus == [message |-> to_string(""), level |-> "None"]
StatusMessage_success(message) == [message |-> message, level |-> "Success"]
StatusMessage_error(message) == [message |-> message, level |-> "Error"]

\* ------------------------------------------------------ build_process_list
partial_cmp(x, y) == IF x < y THEN "Less" ELSE IF x > y THEN "Greater" ELSE "Equal"

compare_swapped(a, b) == partial_cmp(a.cpu_usage, b.cpu_usage)
\* the closure given to sort_by: b.cpu_usage.partial_cmp(&a.cpu_usage)
compare(a, b) == partial_cmp(b.cpu_usage, a.cpu_usage)

\* slice::sort_by is a stable sort: an element goes after every element that
\* does not compare Greater than it.
RECURSIVE InsertStable(_, _)
InsertStable(s, x) ==
  IF s = <<>> THEN <<x>>
  ELSE IF compare(Head(s), x) = "Greater" THEN <<x>> \o s
  ELSE <<Head(s)>> \o InsertStable(Tail(s), x)

RECURSIVE sort_by(_)
sort_by(s) ==
  IF s = <<>> THEN <<>>
  ELSE InsertStable(sort_by(SubSeq(s, 1, Len(s) - 1)), s[Len(s)])

build_process_list_first(sys) == SubSeq(sort_by(sys), 1, 1)
build_process_list(sys) == sort_by(sys)

\* ------------------------------------------------------------------ state
VARIABLES
  system,               \* App.system: the cached process table
  active_tab,           \* App.active_tab
  dashboard_data,       \* App.dashboard_data (process_count)
  process_list,         \* App.process_list
  selected_process,     \* App.selected_process
  show_kill_confirm,    \* App.show_kill_confirm
  last_status_message,  \* App.last_status_message
  settings,             \* App.settings
  is_loading,           \* App.is_loading
  load_task,            \* the AppSettings::load() task is in flight
  save_tasks,           \* save() tasks in flight, per theme they carry
  clear_tasks,          \* sleep tasks in flight: own = scheduled with the
                        \* message now displayed, stale = scheduled earlier
  lastMsg,              \* history: the Message handled last, with its inputs
  before_request,       \* history: the state the last kill request was
                        \* handled in
  last_theme_choice,    \* history: the choice of the last ThemeChanged
  disk,                 \* the file system as AppSettings sees it
  io                    \* history: the last load()/save() call and its result

vars == <<system, active_tab, dashboard_data, process_list, selected_process,
          show_kill_confirm, last_status_message, settings, is_loading,
          load_task, save_tasks, clear_tasks, lastMsg, before_request,
          last_theme_choice, disk, io>>

\* what AppSettings::load and AppSettings::save read and write
storeVars == <<disk, io>>

\* The application state and the tasks in flight (no history).
AppState ==
  [system |-> system, active_tab |-> active_tab,
   dashboard_data |-> dashboard_data, process_list |-> process_list,
   selected_process |-> selected_process,
   show_kill_confirm |-> show_kill_confirm,
   last_status_message |-> last_status_message, settings |-> settings,
   is_loading |-> is_loading, load_task |-> load_task,
   save_tasks |-> save_tasks, clear_tasks |-> clear_tasks]

\* pending: the confirmation pending when a KillProcessConfirmed was
\* handled; theme: the choice a ThemeChanged carried, or the theme the
\* save of a SettingsSaved carried; shown: whether a
\* message was displayed when a ClearStatusMessage was handled.
NoMsg ==
  [type |-> "Init", pid |-> NoPid, ok |-> FALSE, stale |-> FALSE,
   alive |-> FALSE, attempt |-> FALSE, pending |-> NoPid, theme |-> "None",
   shown |-> FALSE]
Msg(type) == [NoMsg EXCEPT !.type = type]

NotRequested == [valid |-> FALSE]

\* History kept by every handler.
Record(msg) ==
  /\ lastMsg' = msg
  /\ before_request' =
       IF msg.type = "KillProcessRequested"
       THEN [valid |-> TRUE, idle |-> show_kill_confirm = NoPid,
             app |-> AppState]
       ELSE IF lastMsg.type = "KillProcessRequested" /\ before_request.idle
            THEN before_request
            ELSE NotRequested
  /\ last_theme_choice' =
       IF msg.type = "ThemeChanged" THEN msg.theme ELSE last_theme_choice

SavesInFlight == save_tasks["Light"] + save_tasks["Dark"]
SleepsInFlight == clear_tasks.own + clear_tasks.stale

\* Command::perform(sleep(3 s), |_| ClearStatusMessage) issued with a new
\* message: the sleeps already in flight belong to older messages.
ScheduleClear ==
  /\ SleepsInFlight < MaxSleeps
  /\ clear_tasks' = [own |-> 1, stale |-> SleepsInFlight]

\* A handler that sets a message and returns Command::none().
NoClearScheduled ==
  clear_tasks' = [own |-> 0, stale |-> SleepsInFlight]

\* App::new, the first refresh reporting a table of `tables`
InitOver(tables) ==
  /\ system \in tables
  /\ dashboard_data = [process_count |-> Len(system)]
  /\ process_list = build_process_list(system)
  /\ active_tab = "Dashboard"
  /\ selected_process = NoPid
  /\ show_kill_confirm = NoPid
  /\ last_status_message = NoStatus
  /\ settings = AppSettings_default
  /\ is_loading = TRUE
  /\ load_task = TRUE
  /\ save_tasks = [t \in ThemeChoice |-> 0]
  /\ clear_tasks = [own |-> 0, stale |-> 0]
  /\ lastMsg = NoMsg
  /\ before_request = NotRequested
  /\ last_theme_choice = "None"

\* Spec follows the application and takes the results of load() and
\* save() as inputs of the completions; the disk is followed by StoreSpec.
NoDisk == "not followed"
NoIo ==
  [op |-> "none", settings |-> [theme |-> "None"], ok |-> FALSE,
   error |-> "", saved |-> "None"]

Init == InitOver(Tables) /\ disk = NoDisk /\ io = NoIo

\* ------------------------------------------------- what the view can emit
\* A user message is handled in the state whose view offered its widget.
\* While is_loading, view returns the loading text alone: no widget at all.
\* The kill modal is drawn together with the main content, whose buttons
\* stay live.

\* the tab buttons
view_TabSelected == ~is_loading

view_ProcessSelected_any_pid(pid) ==
  /\ ~is_loading
  /\ active_tab = "Processes"

\* view_processes: one button per record of process_list
view_ProcessSelected(pid) ==
  /\ ~is_loading
  /\ active_tab = "Processes"
  /\ \E i \in DOMAIN process_list : process_list[i].pid = pid

\* view_processes: the detail pane's Kill Process button, drawn when the
\* selected pid is in the cached table
view_KillProcessRequested(pid) ==
  /\ ~is_loading
  /\ active_tab = "Processes"
  /\ selected_process = pid
  /\ pid \in PidsOf(system)

view_KillProcessConfirmed_selected(pid) ==
  /\ ~is_loading
  /\ pid # NoPid
  /\ show_kill_confirm # NoPid
  /\ selected_process = pid

\* the modal's "Yes, Kill Process" button carries show_kill_confirm's pid
view_KillProcessConfirmed(pid) ==
  /\ ~is_loading
  /\ pid # NoPid
  /\ show_kill_confirm = pid

\* the modal's Cancel button
view_KillProcessCancelled ==
  /\ ~is_loading
  /\ show_kill_confirm # NoPid

view_ThemeChanged_ungated == TRUE
\* view_settings: the two theme radios
view_ThemeChanged ==
  /\ ~is_loading
  /\ active_tab = "Settings"

\* ------------------------------------------------------------ App::update
\* App::theme
App_theme == to_theme(settings.theme)

SettingsLoaded_err_keeps_loading ==
  /\ load_task
  /\ load_task' = FALSE
  /\ \/ \E theme \in ThemeChoice :
          /\ settings' = [theme |-> theme]
          /\ is_loading' = FALSE
          /\ UNCHANGED <<last_status_message, clear_tasks>>
          /\ Record([Msg("SettingsLoaded") EXCEPT !.ok = TRUE])
     \/ /\ last_status_message' =
             StatusMessage_error(to_string("Failed to load settings"))
        /\ NoClearScheduled
        /\ UNCHANGED <<settings, is_loading>>
        /\ Record(Msg("SettingsLoaded"))
  /\ UNCHANGED <<system, active_tab, dashboard_data, process_list,
                 selected_process, show_kill_confirm, save_tasks>>
  /\ UNCHANGED storeVars

\* Message::SettingsLoaded(result): the load task completes.
SettingsLoaded ==
  /\ load_task
  /\ load_task' = FALSE
  /\ is_loading' = FALSE
  /\ \/ \E theme \in ThemeChoice :
          /\ settings' = [theme |-> theme]
          /\ UNCHANGED <<last_status_message, clear_tasks>>
          /\ Record([Msg("SettingsLoaded") EXCEPT !.ok = TRUE])
     \/ /\ last_status_message' =
             StatusMessage_error(to_string("Failed to load settings"))
        /\ NoClearScheduled
        /\ UNCHANGED settings
        /\ Record(Msg("SettingsLoaded"))
  /\ UNCHANGED <<system, active_tab, dashboard_data, process_list,
                 selected_process, show_kill_confirm, save_tasks>>
  /\ UNCHANGED storeVars

ThemeChanged_saves_previous(theme_choice) ==
  /\ view_ThemeChanged
  /\ SavesInFlight < MaxSaves
  /\ settings' = [settings EXCEPT !.theme = theme_choice]
  /\ save_tasks' = [save_tasks EXCEPT ![settings.theme] = @ + 1]
  /\ Record([Msg("ThemeChanged") EXCEPT !.theme = theme_choice])
  /\ UNCHANGED <<system, active_tab, dashboard_data, process_list,
                 selected_process, show_kill_confirm, last_status_message,
                 is_loading, load_task, clear_tasks>>
  /\ UNCHANGED storeVars

ThemeChanged_sets_loading(theme_choice) ==
  /\ view_ThemeChanged
  /\ SavesInFlight < MaxSaves
  /\ settings' = [settings EXCEPT !.theme = theme_choice]
  /\ save_tasks' = [save_tasks EXCEPT ![settings'.theme] = @ + 1]
  /\ is_loading' = TRUE
  /\ Record([Msg("ThemeChanged") EXCEPT !.theme = theme_choice])
  /\ UNCHANGED <<system, active_tab, dashboard_data, process_list,
                 selected_process, show_kill_confirm, last_status_message,
                 load_task, clear_tasks>>
  /\ UNCHANGED storeVars

\* Message::ThemeChanged(theme_choice)
ThemeChanged(theme_choice) ==
  /\ view_ThemeChanged
  /\ SavesInFlight < MaxSaves
  /\ settings' = [settings EXCEPT !.theme = theme_choice]
  /\ save_tasks' = [save_tasks EXCEPT ![settings'.theme] = @ + 1]
  /\ Record([Msg("ThemeChanged") EXCEPT !.theme = theme_choice])
  /\ UNCHANGED <<system, active_tab, dashboard_data, process_list,
                 selected_process, show_kill_confirm, last_status_message,
                 is_loading, load_task, clear_tasks>>
  /\ UNCHANGED storeVars

SettingsSaved_rollback(theme, ok) ==
  /\ save_tasks[theme] > 0
  /\ save_tasks' = [save_tasks EXCEPT ![theme] = @ - 1]
  /\ last_status_message' =
       IF ok
       THEN StatusMessage_success(to_string("Settings saved <c3a2 c593 e280a6>"))
       ELSE StatusMessage_error(
              to_string("Failed to save settings <c3a2 c5a1 c2a0 c3af c2b8>"))
  /\ ScheduleClear
  /\ settings' = IF ok THEN settings ELSE AppSettings_default
  /\ Record([Msg("SettingsSaved") EXCEPT !.ok = ok, !.theme = theme])
  /\ UNCHANGED <<system, active_tab, dashboard_data, process_list,
                 selected_process, show_kill_confirm, is_loading,
                 load_task>>
  /\ UNCHANGED storeVars

SettingsSaved_applies_saved(theme, ok) ==
  /\ save_tasks[theme] > 0
  /\ save_tasks' = [save_tasks EXCEPT ![theme] = @ - 1]
  /\ last_status_message' =
       IF ok
       THEN StatusMessage_success(to_string("Settings saved <c3a2 c593 e280a6>"))
       ELSE StatusMessage_error(
              to_string("Failed to save settings <c3a2 c5a1 c2a0 c3af c2b8>"))
  /\ ScheduleClear
  /\ settings' = IF ok THEN [theme |-> theme] ELSE settings
  /\ Record([Msg("SettingsSaved") EXCEPT !.ok = ok, !.theme = theme])
  /\ UNCHANGED <<system, active_tab, dashboard_data, process_list,
                 selected_process, show_kill_confirm, is_loading,
                 load_task>>
  /\ UNCHANGED storeVars

\* Message::SettingsSaved(result): the save task that carried `theme`
\* completes with Ok(()) or Err.
SettingsSaved(theme, ok) ==
  /\ save_tasks[theme] > 0
  /\ save_tasks' = [save_tasks EXCEPT ![theme] = @ - 1]
  /\ last_status_message' =
       IF ok
       THEN StatusMessage_success(to_string("Settings saved <c3a2 c593 e280a6>"))
       ELSE StatusMessage_error(
              to_string("Failed to save settings <c3a2 c5a1 c2a0 c3af c2b8>"))
  /\ ScheduleClear
  /\ Record([Msg("SettingsSaved") EXCEPT !.ok = ok, !.theme = theme])
  /\ UNCHANGED <<system, active_tab, dashboard_data, process_list,
                 selected_process, show_kill_confirm, settings, is_loading,
                 load_task>>
  /\ UNCHANGED storeVars

reconcile_keep(selected, sys) == selected
\* if let Some(pid) = self.selected_process
\*   { if !self.system.processes().contains_key(&pid) { ... = None } }
reconcile(selected, sys) ==
  IF selected # NoPid /\ selected \notin PidsOf(sys) THEN NoPid ELSE selected

Tick_closes_modal(table) ==
  /\ system' = table
  /\ dashboard_data' = [process_count |-> Len(system')]
  /\ process_list' = build_process_list(system')
  /\ selected_process' = reconcile(selected_process, system')
  /\ show_kill_confirm' = reconcile(show_kill_confirm, system')
  /\ Record([Msg("Tick") EXCEPT !.pid = selected_process])
  /\ UNCHANGED <<active_tab, last_status_message, settings,
                 is_loading, load_task, save_tasks, clear_tasks>>
  /\ UNCHANGED storeVars

\* Message::Tick: refresh_all() reports the table `table`.
Tick(table) ==
  /\ system' = table
  /\ dashboard_data' = [process_count |-> Len(system')]
  /\ process_list' = build_process_list(system')
  /\ selected_process' = reconcile(selected_process, system')
  /\ Record([Msg("Tick") EXCEPT !.pid = selected_process])
  /\ UNCHANGED <<active_tab, show_kill_confirm, last_status_message, settings,
                 is_loading, load_task, save_tasks, clear_tasks>>
  /\ UNCHANGED storeVars

\* Message::TabSelected(tab)
TabSelected(tab) ==
  /\ view_TabSelected
  /\ active_tab' = tab
  /\ Record(Msg("TabSelected"))
  /\ UNCHANGED <<system, dashboard_data, process_list, selected_process,
                 show_kill_confirm, last_status_message, settings, is_loading,
                 load_task, save_tasks, clear_tasks>>
  /\ UNCHANGED storeVars

ProcessSelected_toggle(pid) ==
  /\ view_ProcessSelected(pid)
  /\ selected_process' = IF selected_process = pid THEN NoPid ELSE pid
  /\ Record([Msg("ProcessSelected") EXCEPT !.pid = pid])
  /\ UNCHANGED <<system, active_tab, dashboard_data, process_list,
                 show_kill_confirm, last_status_message, settings, is_loading,
                 load_task, save_tasks, clear_tasks>>
  /\ UNCHANGED storeVars

\* Message::ProcessSelected(pid)
ProcessSelected(pid) ==
  /\ view_ProcessSelected(pid)
  /\ selected_process' = pid
  /\ Record([Msg("ProcessSelected") EXCEPT !.pid = pid])
  /\ UNCHANGED <<system, active_tab, dashboard_data, process_list,
                 show_kill_confirm, last_status_message, settings, is_loading,
                 load_task, save_tasks, clear_tasks>>
  /\ UNCHANGED storeVars

KillProcessRequested_keeps_first(pid) ==
  /\ view_KillProcessRequested(pid)
  /\ show_kill_confirm' =
       IF show_kill_confirm = NoPid THEN pid ELSE show_kill_confirm
  /\ Record([Msg("KillProcessRequested") EXCEPT !.pid = pid])
  /\ UNCHANGED <<system, active_tab, dashboard_data, process_list,
                 selected_process, last_status_message, settings, is_loading,
                 load_task, save_tasks, clear_tasks>>
  /\ UNCHANGED storeVars

\* Message::KillProcessRequested(pid)
KillProcessRequested(pid) ==
  /\ view_KillProcessRequested(pid)
  /\ show_kill_confirm' = pid
  /\ Record([Msg("KillProcessRequested") EXCEPT !.pid = pid])
  /\ UNCHANGED <<system, active_tab, dashboard_data, process_list,
                 selected_process, last_status_message, settings, is_loading,
                 load_task, save_tasks, clear_tasks>>
  /\ UNCHANGED storeVars

KillProcessCancelled_deselects ==
  /\ view_KillProcessCancelled
  /\ show_kill_confirm' = NoPid
  /\ selected_process' = NoPid
  /\ Record(Msg("KillProcessCancelled"))
  /\ UNCHANGED <<system, active_tab, dashboard_data, process_list,
                 last_status_message, settings, is_loading,
                 load_task, save_tasks, clear_tasks>>
  /\ UNCHANGED storeVars

\* Message::KillProcessCancelled
KillProcessCancelled ==
  /\ view_KillProcessCancelled
  /\ show_kill_confirm' = NoPid
  /\ Record(Msg("KillProcessCancelled"))
  /\ UNCHANGED <<system, active_tab, dashboard_data, process_list,
                 selected_process, last_status_message, settings, is_loading,
                 load_task, save_tasks, clear_tasks>>
  /\ UNCHANGED storeVars

\* Process::kill(): the signal is delivered when the pid is live and the
\* caller may signal it.
process_kill(alive, permitted) == alive /\ permitted

kill_status_levels_swapped(pid, found, killed) ==
  IF found
  THEN IF killed
       THEN StatusMessage_error(
              format("Process {} killed successfully <c3a2 c593 e280a6>", pid))
       ELSE StatusMessage_success(
              format("Failed to kill process {} <c3a2 c5a1 c2a0 c3af c2b8> (Permission denied?)", pid))
  ELSE StatusMessage_error(format("Tried to kill non-existent process {}", pid))

\* the status message of KillProcessConfirmed: `found` is
\* self.system.process(pid).is_some(), `killed` is what process.kill() returned
kill_status(pid, found, killed) ==
  IF found
  THEN IF killed
       THEN StatusMessage_success(
              format("Process {} killed successfully <c3a2 c593 e280a6>", pid))
       ELSE StatusMessage_error(
              format("Failed to kill process {} <c3a2 c5a1 c2a0 c3af c2b8> (Permission denied?)", pid))
  ELSE StatusMessage_error(format("Tried to kill non-existent process {}", pid))

confirm_closes_modal_if_found(pid, found) == IF found THEN NoPid ELSE pid
\* self.show_kill_confirm = None, first statement of the handler
confirm_closes_modal(pid, found) == NoPid

\* Message::KillProcessConfirmed(pid): `alive` says whether the OS still
\* runs a process with this pid, `permitted` whether it lets us signal it.
KillProcessConfirmed(pid, alive, permitted) ==
  /\ view_KillProcessConfirmed(pid)
  /\ LET found == pid \in PidsOf(system)
         killed == found /\ process_kill(alive, permitted)
     IN /\ show_kill_confirm' = confirm_closes_modal(pid, found)
        /\ last_status_message' = kill_status(pid, found, killed)
        /\ Record([Msg("KillProcessConfirmed") EXCEPT
                     !.pid = pid, !.alive = alive, !.ok = killed,
                     !.attempt = found, !.pending = show_kill_confirm])
  /\ ScheduleClear
  /\ UNCHANGED <<system, active_tab, dashboard_data, process_list,
                 selected_process, settings, is_loading, load_task,
                 save_tasks>>
  /\ UNCHANGED storeVars

ClearStatusMessage_closes_modal(stale) ==
  /\ IF stale THEN clear_tasks.stale > 0 ELSE clear_tasks.own > 0
  /\ last_status_message' = NoStatus
  /\ show_kill_confirm' = NoPid
  /\ clear_tasks' = [own |-> 0, stale |-> SleepsInFlight - 1]
  /\ Record([Msg("ClearStatusMessage") EXCEPT
               !.stale = stale, !.shown = last_status_message # NoStatus])
  /\ UNCHANGED <<system, active_tab, dashboard_data, process_list,
                 selected_process, settings, is_loading,
                 load_task, save_tasks>>
  /\ UNCHANGED storeVars

\* Message::ClearStatusMessage: one of the sleeps in flight completes.
ClearStatusMessage(stale) ==
  /\ IF stale THEN clear_tasks.stale > 0 ELSE clear_tasks.own > 0
  /\ last_status_message' = NoStatus
  /\ clear_tasks' = [own |-> 0, stale |-> SleepsInFlight - 1]
  /\ Record([Msg("ClearStatusMessage") EXCEPT
               !.stale = stale, !.shown = last_status_message # NoStatus])
  /\ UNCHANGED <<system, active_tab, dashboard_data, process_list,
                 selected_process, show_kill_confirm, settings, is_loading,
                 load_task, save_tasks>>
  /\ UNCHANGED storeVars

\* --------------------------------------------- the settings store alone
\* a call of AppSettings::load().await
AppSettings_load ==
  /\ io' = [op |-> "load", settings |-> load(disk).value,
            ok |-> load(disk).ok, error |-> load(disk).error,
            saved |-> io.saved]
  /\ UNCHANGED disk
  /\ UNCHANGED <<system, active_tab, dashboard_data, process_list,
                 selected_process, show_kill_confirm, last_status_message,
                 settings, is_loading, load_task, save_tasks, clear_tasks,
                 lastMsg, before_request, last_theme_choice>>

\* a call of s.save().await; io.saved is the value of the last save if it
\* succeeded
AppSettings_save(s) ==
  /\ disk' = save(s, disk).disk
  /\ io' = [op |-> "save", settings |-> s, ok |-> save(s, disk).result.ok,
            error |-> save(s, disk).result.error,
            saved |-> IF save(s, disk).result.ok THEN s.theme ELSE "None"]
  /\ UNCHANGED <<system, active_tab, dashboard_data, process_list,
                 selected_process, show_kill_confirm, last_status_message,
                 settings, is_loading, load_task, save_tasks, clear_tasks,
                 lastMsg, before_request, last_theme_choice>>

Next ==
  \/ SettingsLoaded
  \/ \E theme_choice \in ThemeChoice : ThemeChanged(theme_choice)
  \/ \E theme \in ThemeChoice, ok \in BOOLEAN : SettingsSaved(theme, ok)
  \/ \E table \in Tables : Tick(table)
  \/ \E tab \in Tab : TabSelected(tab)
  \/ \E pid \in Pids : ProcessSelected(pid)
  \/ \E pid \in Pids : KillProcessRequested(pid)
  \/ KillProcessCancelled
  \/ \E pid \in Pids, alive \in BOOLEAN, permitted \in BOOLEAN :
       KillProcessConfirmed(pid, alive, permitted)
  \/ \E stale \in BOOLEAN : ClearStatusMessage(stale)

Spec == Init /\ [][Next]_vars

\* The runtime delivers the completion of every task in flight, and the
\* subscription keeps ticking.
Fairness ==
  /\ WF_vars(SettingsLoaded)
  /\ WF_vars(\E theme \in ThemeChoice, ok \in BOOLEAN : SettingsSaved(theme, ok))
  /\ WF_vars(\E stale \in BOOLEAN : ClearStatusMessage(stale))
  /\ WF_vars(\E table \in Tables : Tick(table))

LiveSpec == Init /\ [][Next]_vars /\ Fairness

\* AppSettings alone: load and save called in any order on any file
\* system, the application left as constructed.
StoreInit == InitOver(Tables) /\ disk \in Disks /\ io = NoIo
StoreNext ==
  \/ AppSettings_load
  \/ \E s \in AppSettings : AppSettings_save(s)
StoreSpec == StoreInit /\ [][StoreNext]_vars

\* The refresh path alone, over larger process tables.
SortInit == InitOver(SortTables) /\ disk = NoDisk /\ io = NoIo
SortNext == \E table \in SortTables : Tick(table)
SortSpec == SortInit /\ [][SortNext]_vars

\* ---------------------------------------------------------------- claims
ListPids == {process_list[i].pid : i \in DOMAIN process_list}

Confirmed == lastMsg.type = "KillProcessConfirmed"

\* C1: a clear scheduled for an older message, handled while a newer message
\* is displayed, leaves that newer message displayed.
C1_StaleClearKeepsNewerMessage ==
  [][(/\ lastMsg'.type = "ClearStatusMessage"
      /\ lastMsg'.stale
      /\ last_status_message # NoStatus)
     => last_status_message' = last_status_message]_vars

\* C2: kill-confirmed(pid) with pid absent from the live OS process table
\* sets exactly the Error message "Tried to kill non-existent process <pid>"
\* and leaves no confirmation pending, also when the cached table still
\* lists pid.
C2_DeadProcessReportedNonExistent ==
  (Confirmed /\ ~lastMsg.alive) =>
    /\ last_status_message =
         StatusMessage_error(
           format("Tried to kill non-existent process {}", lastMsg.pid))
    /\ show_kill_confirm = NoPid

\* C3: whenever an Error status message is displayed, the status message
\* eventually becomes none.
C3_ErrorStatusIsTransient ==
  (last_status_message.level = "Error") ~> (last_status_message = NoStatus)

\* C4: after a timer tick, a selection whose pid the refreshed process list
\* lacks is none, and a selection whose pid it contains is unchanged.
C4_TickReconcilesSelection ==
  lastMsg.type = "Tick" =>
    selected_process =
      (IF lastMsg.pid # NoPid /\ lastMsg.pid \notin ListPids
       THEN NoPid ELSE lastMsg.pid)

C4_Witness ==
  /\ lastMsg.type = "Tick"
  /\ lastMsg.pid # NoPid
  /\ lastMsg.pid \notin ListPids
  /\ selected_process = NoPid

\* C5: a selected pid is a pid of the process list the controller holds.
C5_SelectionInProcessList ==
  selected_process # NoPid => selected_process \in ListPids

C5_Witness ==
  /\ lastMsg.type = "ProcessSelected"
  /\ selected_process = lastMsg.pid
  /\ Len(process_list) > 1

\* C6: kill-requested from Idle followed immediately by kill-cancelled gives
\* back the starting state (application state and tasks in flight), and
\* neither step attempts a terminate.
C6_RequestThenCancelRestores ==
  /\ (/\ lastMsg.type = "KillProcessCancelled"
      /\ before_request.valid
      /\ before_request.idle)
       => AppState = before_request.app
  /\ lastMsg.type \in {"KillProcessRequested", "KillProcessCancelled"}
       => ~lastMsg.attempt

C6_Witness ==
  /\ lastMsg.type = "KillProcessCancelled"
  /\ before_request.valid
  /\ before_request.idle
  /\ last_status_message # NoStatus
  /\ SleepsInFlight > 0

\* C7: a save completion leaves the in-memory theme equal to the user's most
\* recent choice, and a failed one sets the Error status message.
C7_FailedSaveKeepsChoice ==
  lastMsg.type = "SettingsSaved" =>
    /\ settings.theme = last_theme_choice
    /\ ~lastMsg.ok =>
         last_status_message =
           StatusMessage_error(
             to_string("Failed to save settings <c3a2 c5a1 c2a0 c3af c2b8>"))

C7_Witness ==
  /\ lastMsg.type = "SettingsSaved"
  /\ ~lastMsg.ok
  /\ last_status_message.level = "Error"
  /\ settings.theme = "Light"

\* C8: kill-confirmed and kill-cancelled leave no confirmation pending,
\* kill-confirmed sets one of its three status messages with one clear
\* scheduled for it, and a confirmation becomes pending only by a
\* kill-requested.
C8_ConfirmAndCancelReturnToIdle ==
  [][/\ lastMsg'.type \in {"KillProcessConfirmed", "KillProcessCancelled"}
          => show_kill_confirm' = NoPid
     /\ lastMsg'.type = "KillProcessConfirmed"
          => /\ \E found, killed \in BOOLEAN :
                  last_status_message' = kill_status(lastMsg'.pid, found, killed)
             /\ clear_tasks'.own = 1
             /\ clear_tasks'.stale = SleepsInFlight
     /\ (show_kill_confirm' # NoPid /\ show_kill_confirm' # show_kill_confirm)
          => lastMsg'.type = "KillProcessRequested"]_vars

C8_Witness ==
  /\ Confirmed
  /\ lastMsg.pid \notin PidsOf(system)
  /\ show_kill_confirm = NoPid

\* C9 as stated: with the process found, a successful terminate gives
\* Success "Process <pid> killed successfully" and a failed one gives Error
\* "Failed to kill process <pid> (permission denied?)".
C9_StatedTexts ==
  (Confirmed /\ lastMsg.attempt) =>
    last_status_message =
      (IF lastMsg.ok
       THEN StatusMessage_success(
              format("Process {} killed successfully", lastMsg.pid))
       ELSE StatusMessage_error(
              format("Failed to kill process {} (permission denied?)",
                     lastMsg.pid)))

\* C9, amended: the texts are the source's literals, which carry a non-ASCII
\* mark (after "successfully", and before "(Permission denied?)"); the level
\* is Success exactly when the terminate call was made and returned success.
C9_KillOutcomeMessages ==
  Confirmed =>
    /\ lastMsg.attempt =>
         last_status_message =
           (IF lastMsg.ok
            THEN StatusMessage_success(
                   format("Process {} killed successfully <c3a2 c593 e280a6>",
                          lastMsg.pid))
            ELSE StatusMessage_error(
                   format("Failed to kill process {} <c3a2 c5a1 c2a0 c3af c2b8> (Permission denied?)",
                          lastMsg.pid)))
    /\ (last_status_message.level = "Success") <=> (lastMsg.attempt /\ lastMsg.ok)
    /\ lastMsg.attempt <=> (lastMsg.pid \in PidsOf(system))

C9_Witness ==
  /\ Confirmed
  /\ lastMsg.attempt
  /\ lastMsg.ok
  /\ last_status_message.level = "Success"

\* C10: the process list is a permutation of the records the collector
\* reported, in descending cpu_usage, records of equal cpu_usage in the
\* order the collector reported them.
PositionIn(t, r) == CHOOSE i \in DOMAIN t : t[i] = r

C10_SortedStablePermutation ==
  /\ Len(process_list) = Len(system)
  /\ {process_list[i] : i \in DOMAIN process_list}
       = {system[i] : i \in DOMAIN system}
  /\ \A i, j \in DOMAIN process_list :
       i < j =>
         /\ process_list[i].cpu_usage >= process_list[j].cpu_usage
         /\ process_list[i].cpu_usage = process_list[j].cpu_usage
              => PositionIn(system, process_list[i])
                   < PositionIn(system, process_list[j])

C10_Witness ==
  /\ lastMsg.type = "Tick"
  /\ Len(process_list) = 3
  /\ process_list # system
  /\ process_list[1].cpu_usage = process_list[2].cpu_usage
  /\ process_list[2].cpu_usage > process_list[3].cpu_usage

UserIntent ==
  {"ThemeChanged", "ProcessSelected", "KillProcessRequested",
   "KillProcessConfirmed", "KillProcessCancelled"}

\* C11: a kill-requested(q) handled while a confirmation for p is pending
\* leaves q the one pending confirmation and changes nothing else: no
\* terminate attempt, no status message, no task.
C11_RequestReplacesPending ==
  lastMsg.type = "KillProcessRequested" =>
    /\ before_request.valid
    /\ AppState =
         [before_request.app EXCEPT !.show_kill_confirm = lastMsg.pid]
    /\ ~lastMsg.attempt

C11_Witness ==
  /\ lastMsg.type = "KillProcessRequested"
  /\ before_request.valid
  /\ before_request.app.show_kill_confirm # NoPid
  /\ before_request.app.show_kill_confirm # lastMsg.pid
  /\ show_kill_confirm = lastMsg.pid

\* C12: theme-changed(choice) sets the in-memory theme to choice and
\* schedules exactly one save task, carrying choice; while a save of the
\* most recent choice is in flight, the theme the application exposes is
\* that choice.
C12_ThemeChangedSetsAndSaves ==
  [][/\ lastMsg'.type = "ThemeChanged"
          => /\ settings'.theme = lastMsg'.theme
             /\ save_tasks' = [save_tasks EXCEPT ![lastMsg'.theme] = @ + 1]
             /\ clear_tasks' = clear_tasks
             /\ load_task' = load_task
     /\ (last_theme_choice' # "None" /\ save_tasks'[last_theme_choice'] > 0)
          => App_theme' = to_theme(last_theme_choice')]_vars

C12_Witness ==
  /\ lastMsg.type = "SettingsSaved"
  /\ last_theme_choice = "Light"
  /\ save_tasks["Light"] = 1
  /\ App_theme = "Theme::Light"

\* C13: once a failed settings load has been handled, the theme is the
\* default Dark, is_loading is false, and the application goes on handling
\* events: the tabs are offered and the timer ticks.
C13_FailedLoadFallsBackToDefault ==
  (lastMsg.type = "SettingsLoaded" /\ ~lastMsg.ok) =>
    /\ settings = AppSettings_default
    /\ App_theme = "Theme::Dark"
    /\ ~is_loading
    /\ view_TabSelected
    /\ ENABLED (\E table \in Tables : Tick(table))

C13_Witness ==
  /\ lastMsg.type = "SettingsLoaded"
  /\ ~lastMsg.ok
  /\ ~is_loading
  /\ last_status_message.level = "Error"

\* C14: load() with a config directory but no settings file returns the
\* default settings (theme Dark) as a success, and it returns an error only
\* when the file exists or no config directory can be determined.
C14_LoadOfMissingFileIsDefault ==
  io.op = "load" =>
    /\ (disk.config_dir /\ disk.file = Absent)
         => (io.ok /\ io.settings = AppSettings_default)
    /\ ~io.ok => (~disk.config_dir \/ disk.file # Absent)

C14_Witness ==
  /\ io.op = "load"
  /\ disk.config_dir
  /\ ~disk.dir_exists
  /\ io.ok
  /\ io.settings.theme = "Dark"

\* C15: a load() that follows a successful save(s), with no save in
\* between, succeeds with a value equal to s.
C15_SaveLoadRoundTrip ==
  (io.op = "load" /\ io.saved # "None") =>
    /\ io.ok
    /\ io.settings = [theme |-> io.saved]

C15_Witness ==
  /\ io.op = "load"
  /\ io.saved = "Light"
  /\ io.ok
  /\ io.settings.theme = "Light"

\* C16: is_loading is true from construction until the completion of the
\* settings load is handled, false once it has been handled, with success
\* or with error, and never true again.
C16_LoadingUntilLoadHandled ==
  /\ is_loading = load_task
  /\ lastMsg.type = "Init" => is_loading
  /\ lastMsg.type \notin {"Init", "Tick"} => ~is_loading

C16_Witness ==
  /\ ~is_loading
  /\ lastMsg.type = "ThemeChanged"
  /\ SavesInFlight > 0

\* C17: while is_loading is true no user-intent event is handled: the
\* settings, the selection, the pending confirmation and the status message
\* are as constructed, and no save and no terminate attempt has been made.
C17_NoInteractionWhileLoading ==
  is_loading =>
    /\ lastMsg.type \notin UserIntent
    /\ settings = AppSettings_default
    /\ selected_process = NoPid
    /\ show_kill_confirm = NoPid
    /\ last_status_message = NoStatus
    /\ SavesInFlight = 0
    /\ ~lastMsg.attempt

C17_Witness ==
  /\ is_loading
  /\ lastMsg.type = "Tick"
  /\ Len(process_list) > 1

\* C18: process-selected(pid) sets the selection to pid whatever it was, a
\* tick leaves it or clears it, clearing only a pid the refreshed table
\* lacks, and every other event leaves it unchanged.
C18_SelectionChangesOnlyBySelectAndTick ==
  [][/\ lastMsg'.type = "ProcessSelected"
          => selected_process' = lastMsg'.pid
     /\ lastMsg'.type = "Tick"
          => \/ selected_process' = selected_process
             \/ /\ selected_process' = NoPid
                /\ selected_process \notin PidsOf(system')
     /\ lastMsg'.type \notin {"ProcessSelected", "Tick"}
          => selected_process' = selected_process]_vars

C18_Witness ==
  /\ Confirmed
  /\ lastMsg.ok
  /\ selected_process = lastMsg.pid

\* C19: status-clear-requested leaves the status message none, whether or
\* not one was displayed, changes no other component of the state, and
\* schedules nothing: the sleep that delivered it is the only task gone.
C19_ClearIsIdempotent ==
  [][lastMsg'.type = "ClearStatusMessage"
       => /\ last_status_message' = NoStatus
          /\ last_status_message = NoStatus
               => last_status_message' = last_status_message
          /\ UNCHANGED <<system, active_tab, dashboard_data, process_list,
                         selected_process, show_kill_confirm, settings,
                         is_loading, load_task, save_tasks>>
          /\ clear_tasks'.own + clear_tasks'.stale = SleepsInFlight - 1
          /\ ~lastMsg'.attempt]_vars

C19_Witness ==
  /\ lastMsg.type = "ClearStatusMessage"
  /\ ~lastMsg.shown
  /\ last_status_message = NoStatus
  /\ show_kill_confirm # NoPid

\* C20: a terminate attempt is made only while handling kill-confirmed(pid),
\* and only for the pid whose confirmation was pending when it was handled.
C20_TerminateOnlyForPendingTarget ==
  lastMsg.attempt =>
    /\ Confirmed
    /\ lastMsg.pid # NoPid
    /\ lastMsg.pending = lastMsg.pid

C20_Witness ==
  /\ Confirmed
  /\ lastMsg.attempt
  /\ lastMsg.pending = lastMsg.pid
  /\ selected_process # NoPid
  /\ selected_process # lastMsg.pid

\* C21: a timer tick replaces the system snapshot and the process list, by
\* those of one refreshed table, and leaves the selection or clears it; the
\* pending kill confirmation, the status message, the settings, the active
\* tab, is_loading and the tasks in flight are unchanged, also when the
\* pending pid is gone from the refreshed table.
C21_TickChangesOnlySnapshotAndSelection ==
  [][lastMsg'.type = "Tick"
       => /\ UNCHANGED <<show_kill_confirm, last_status_message, settings,
                         active_tab, is_loading, load_task, save_tasks,
                         clear_tasks>>
          /\ system' \in Tables
          /\ dashboard_data' = [process_count |-> Len(system')]
          /\ process_list' = build_process_list(system')
          /\ selected_process' \in {selected_process, NoPid}]_vars

C21_Witness ==
  /\ lastMsg.type = "Tick"
  /\ show_kill_confirm # NoPid
  /\ show_kill_confirm \notin PidsOf(system)
  /\ selected_process = NoPid

\* C22: the snapshot's process_count is the number of records of the
\* process list.
C22_ProcessCountIsListLength ==
  dashboard_data.process_count = Len(process_list)

C22_Witness ==
  /\ lastMsg.type = "Tick"
  /\ dashboard_data.process_count = 2
  /\ Len(process_list) = 2
  /\ process_list # system

\* C23: the in-memory settings change only when a successful load
\* completion or a theme-changed is handled, and once a theme-changed has
\* been handled the in-memory theme is the choice of the most recent one,
\* whatever order the save completions arrive in.
C23_SettingsFollowLastChoice ==
  [][/\ settings' # settings
          => \/ lastMsg'.type = "ThemeChanged"
             \/ lastMsg'.type = "SettingsLoaded" /\ lastMsg'.ok
     /\ last_theme_choice' # "None"
          => settings' = [theme |-> last_theme_choice']]_vars

C23_Witness ==
  /\ lastMsg.type = "SettingsSaved"
  /\ lastMsg.ok
  /\ lastMsg.theme # last_theme_choice
  /\ SavesInFlight = 0
  /\ settings.theme = last_theme_choice

====
